---- MODULE Spec2Model ----
(***************************************************************************)
(* Model of scripts/pg-replication-exporter.py: the publish loop of main,  *)
(* one collection cycle of collect_metrics, the collectors it calls, the   *)
(* health scorer and the consistency collector, writing into the           *)
(* prometheus registry (the module-level Gauge objects).                   *)
(*                                                                         *)
(* The databases are the environment.  A query either returns a result     *)
(* drawn from a small set or raises psycopg2.Error.  The connections are   *)
(* psycopg2 connections in their default (non-autocommit) mode and the     *)
(* program never calls rollback(): after a statement has failed on a       *)
(* connection every later statement on that connection fails as well.      *)
(***************************************************************************)
EXTENDS Integers, Sequences, FiniteSets, TLC

VARIABLES
    pc,          \* position of the main thread (see the actions below)
    cycle,       \* number of collect_metrics() calls started so far
    faults,      \* number of failures the environment has injected so far
    scen,        \* the environment explored in this run (fixed by Init)
    db,          \* the replication state of the cluster, which the queries read
    conn,        \* conn[e]: collect_metrics' local primary_conn / standby_conn
    reg,         \* the registry: series -> last value set, or Absent
    regAtStart,  \* the registry as it was when the current cycle started
    written,     \* the series set() was called on during the current cycle
    invoked,     \* the collectors called during the current cycle, in order
    failed,      \* the collectors whose except psycopg2.Error clause ran
    acquired,    \* the endpoints collect_metrics got a connection to, this cycle
    reach,       \* reach[e]: outcome of this cycle's connection attempts to e
    hsRead,      \* hsRead[e]: what calculate_health_score read and published
    dc,          \* what get_data_consistency_metrics did in this cycle
    dcOpen,      \* endpoints with a connection opened by it and never closed
    slotRes,     \* get_replication_slot_metrics' local result row
    exc          \* the last exception that reached main's except Exception clause

vars == <<pc, cycle, faults, scen, db, conn, reg, regAtStart, written, invoked,
          failed, acquired, reach, hsRead, dc, dcOpen, slotRes, exc>>

(***************************************************************************)
(* Bounds of the exploration.                                              *)
(***************************************************************************)
MaxCycles == 2
MaxFaults == 2

(***************************************************************************)
(* Program constants.                                                      *)
(***************************************************************************)
LagBytesHigh == 10485760
LagBytesLow == 1048576
LagSecondsHigh == 30
LagSecondsLow == 5
BytesPerMb == 1048576

Endpoints == {"primary", "standby"}
Absent == -1
NoRow == <<>>

(***************************************************************************)
(* The registry.  A series is <<metric name, instance label, client_addr   *)
(* label>> (client_addr is "" for the metrics that have no such label).    *)
(* pg_replication_lag_mb holds lag_bytes / (1024 * 1024); the model keeps  *)
(* that quotient as the numerator of a fraction whose denominator is       *)
(* BytesPerMb.                                                             *)
(***************************************************************************)
ClientAddrs == {"10.0.0.2"}

Ser(name, instance) == <<name, instance, "">>

SyncSer(client_addr) == <<"pg_replication_sync_state", "primary", client_addr>>

LagSeries(e) ==
    {Ser("pg_replication_lag_bytes", e), Ser("pg_replication_lag_seconds", e),
     Ser("pg_replication_lag_mb", e)}

PrimarySeries ==
    LagSeries("primary")
    \cup {Ser("pg_replication_connections", "primary"), SyncSer("all")}
    \cup {SyncSer(a) : a \in ClientAddrs}
    \cup {Ser("pg_wal_senders", "primary"), Ser("pg_wal_generation_rate", "primary"),
          Ser("pg_replication_slots_total", "primary"),
          Ser("pg_replication_slots_active", "primary"),
          Ser("pg_replication_slots_inactive", "primary"),
          Ser("pg_replication_health_score", "primary")}

StandbySeries ==
    LagSeries("standby")
    \cup {Ser("pg_wal_receivers", "standby"),
          Ser("pg_replication_health_score", "standby")}

ConsistencySer == Ser("pg_data_consistency_check", "cluster")

Series == PrimarySeries \cup StandbySeries \cup {ConsistencySer}

SeriesOf(e) == IF e = "primary" THEN PrimarySeries ELSE StandbySeries

\* Gauge.labels(...).set(v) for each series in the domain of the function upd
SetAll(r, upd) == [s \in Series |-> IF s \in DOMAIN upd THEN upd[s] ELSE r[s]]

(***************************************************************************)
(* The environments explored.  A scenario says which query results vary in *)
(* a run, how many cycles the run has and how many failures the            *)
(* environment may inject.  In the "steady" scenario every query returns   *)
(* the same healthy answer: one synchronous standby 500 KiB and 2 seconds  *)
(* behind, one active slot, equal row counts.  In "rows", "primary",       *)
(* "standby" and "slots" the results of the row counts, of the primary     *)
(* scorer's queries, of the standby scorer's queries or of the slot query  *)
(* change from one query to the next; in "replication" the state of the    *)
(* cluster changes between two polls and every query reads that state.     *)
(***************************************************************************)
Scenarios ==
    { [vary |-> "steady",  cycles |-> MaxCycles, faults |-> MaxFaults],
      [vary |-> "rows",    cycles |-> MaxCycles, faults |-> 1],
      [vary |-> "primary", cycles |-> MaxCycles, faults |-> 1],
      [vary |-> "standby", cycles |-> MaxCycles, faults |-> 1],
      [vary |-> "replication", cycles |-> MaxCycles, faults |-> 1],
      [vary |-> "slots",   cycles |-> MaxCycles, faults |-> 1] }

(***************************************************************************)
(* The cluster, as the statistics views show it.  replicas: the rows of    *)
(* pg_stat_replication on the primary, <<client_addr, 1 if sync_state is   *)
(* 'sync' else 0, bytes from the current WAL position to replay_lsn>>.     *)
(* receiver: pg_stat_wal_receiver on the standby has a row.  replay: NoRow *)
(* when the standby has received and replayed nothing since its start (the *)
(* LSN and timestamp functions return NULL), else <<received minus         *)
(* replayed bytes, seconds since the last replayed transaction>>.          *)
(***************************************************************************)
Null == Absent

Streaming(sync) ==
    [replicas |-> {<<"10.0.0.2", sync, 512000>>}, receiver |-> TRUE,
     replay |-> <<512000, 2>>]

\* the standby was (re)started and has not attached to the primary yet: it
\* has received nothing and replayed no transaction since its start
Restarted == [replicas |-> {}, receiver |-> FALSE, replay |-> NoRow]

\* the standby lost its WAL receiver 31 seconds after its last replay
Detached == [replicas |-> {}, receiver |-> FALSE, replay |-> <<512000, 31>>]

DbStates == {Streaming(1), Streaming(0), Restarted, Detached}

\* in the "replication" scenario the standby attaches, detaches or changes
\* its sync mode between two polls
NextDbStates == IF scen.vary = "replication" THEN DbStates ELSE {db}

\* COALESCE(v, d)
Coalesce(v, d) == IF v = Null THEN d ELSE v

\* MIN(...) over the rows of a view: NULL when there is no row
MinOf(S) == IF S = {} THEN Null ELSE CHOOSE x \in S : \A y \in S : x <= y

\* bug: no aggregate and no COALESCE, so no partner means no row
LagQueryPerPartner(e, d) ==
    IF e = "primary"
    THEN IF d.replicas = {} THEN NoRow ELSE <<MinOf({r[3] : r \in d.replicas}), 0>>
    ELSE IF d.replay = NoRow THEN NoRow ELSE d.replay

\* the lag query of get_replication_lag_metrics.  Both are aggregate or
\* FROM-less SELECTs, so there is always one row.  On the primary
\* pg_last_xact_replay_timestamp() is NULL, so lag_seconds is 0.
LagQuery(e, d) ==
    IF e = "primary"
    THEN <<Coalesce(MinOf({r[3] : r \in d.replicas}), 0), Coalesce(Null, 0)>>
    ELSE <<Coalesce(IF d.replay = NoRow THEN Null ELSE d.replay[1], 0),
           Coalesce(IF d.replay = NoRow THEN Null ELSE d.replay[2], 0)>>

\* COUNT(*), COUNT(*) FILTER (WHERE sync_state = 'sync') FROM pg_stat_replication
ConnCountQuery(d) ==
    <<Cardinality(d.replicas), Cardinality({r \in d.replicas : r[2] = 1})>>

\* client_addr, CASE WHEN sync_state = 'sync' THEN 1 ELSE 0 END
ConnRowsQuery(d) == {<<r[1], r[2]>> : r \in d.replicas}

\* the aggregate lag query of calculate_health_score('primary'): always one row
HsPrimaryLagQuery(d) == <<Coalesce(MinOf({r[3] : r \in d.replicas}), 0)>>

\* the lag query of calculate_health_score('standby'), FROM pg_stat_wal_receiver:
\* no row when no WAL receiver runs
HsStandbyLagQuery(d) ==
    IF d.receiver THEN LagQuery("standby", d) ELSE NoRow

LagBytesVals == {0, LagBytesLow, LagBytesLow + 1, LagBytesHigh, LagBytesHigh + 1}

LagSecondsVals == {0, LagSecondsLow, LagSecondsLow + 1, LagSecondsHigh, LagSecondsHigh + 1}

\* what cursor.fetchone() returns in get_replication_lag_metrics
LagRows(e) == {LagQuery(e, db)}

\* SELECT COUNT(*) FROM pg_stat_replication in calculate_health_score
HsCounts == IF scen.vary = "primary" THEN {0, 1} ELSE {Cardinality(db.replicas)}

HsPrimaryRows ==
    IF scen.vary = "primary"
    THEN {<<b>> : b \in LagBytesVals}
    ELSE {HsPrimaryLagQuery(db)}

\* SELECT pg_is_in_recovery()
HsRecovery == IF scen.vary = "standby" THEN BOOLEAN ELSE {TRUE}

HsStandbyRows ==
    IF scen.vary = "standby"
    THEN {NoRow} \cup (LagBytesVals \X LagSecondsVals)
    ELSE {HsStandbyLagQuery(db)}

\* SELECT COUNT(*) FROM test_data on either side
RowCounts == IF scen.vary = "rows" THEN {3, 4} ELSE {3}

(***************************************************************************)
(* calculate_health_score: the arithmetic.                                 *)
(***************************************************************************)
Max(a, b) == IF a >= b THEN a ELSE b

Min(a, b) == IF a <= b THEN a ELSE b

\* health_score = max(0, min(100, health_score))
Clamp(health_score) == Max(0, Min(100, health_score))

\* bug: the "< 1" test comes first, so zero connections cost only 20
ConnectionPenaltyWrongOrder(replication_count) ==
    IF replication_count < 1 THEN 20
    ELSE IF replication_count = 0 THEN 50
    ELSE 0

\* if replication_count == 0: -50 / elif replication_count < 1: -20
ConnectionPenalty(replication_count) ==
    IF replication_count = 0 THEN 50
    ELSE IF replication_count < 1 THEN 20
    ELSE 0

\* primary: if lag_bytes > 10485760: -30 / elif lag_bytes > 1048576: -10
PrimaryLagPenalty(lag_bytes) ==
    IF lag_bytes > LagBytesHigh THEN 30
    ELSE IF lag_bytes > LagBytesLow THEN 10
    ELSE 0

\* bug: two independent ifs, so a lag above 10 MiB costs 30 and 10
StandbyLagPenaltyStacked(lag_bytes) ==
    (IF lag_bytes > LagBytesHigh THEN 30 ELSE 0)
    + (IF lag_bytes > LagBytesLow THEN 10 ELSE 0)

\* standby: if lag_bytes > 10485760: -30 / elif lag_bytes > 1048576: -10
StandbyLagPenalty(lag_bytes) ==
    IF lag_bytes > LagBytesHigh THEN 30
    ELSE IF lag_bytes > LagBytesLow THEN 10
    ELSE 0

\* if not in_recovery: -30
RecoveryPenalty(in_recovery) == IF in_recovery THEN 0 ELSE 30

\* if lag_seconds > 30: -20 / elif lag_seconds > 5: -5
SecondsPenalty(lag_seconds) ==
    IF lag_seconds > LagSecondsHigh THEN 20
    ELSE IF lag_seconds > LagSecondsLow THEN 5
    ELSE 0

\* bug: the penalties are added to the score and the clamp is left out
PrimaryScoreAdded(replication_count, result) ==
    100 + ConnectionPenalty(replication_count)
        + (IF result # NoRow THEN PrimaryLagPenalty(result[1]) ELSE 0)

\* the primary branch: count query, then the lag row ("if result:")
PrimaryScore(replication_count, result) ==
    Clamp(100 - ConnectionPenalty(replication_count)
              - (IF result # NoRow THEN PrimaryLagPenalty(result[1]) ELSE 0))

\* bug: the seconds test is an elif of the bytes tests
StandbyScoreExclusive(in_recovery, result) ==
    Clamp(100 - RecoveryPenalty(in_recovery)
              - (IF result # NoRow
                 THEN IF StandbyLagPenalty(result[1]) > 0
                      THEN StandbyLagPenalty(result[1])
                      ELSE SecondsPenalty(result[2])
                 ELSE 0))

\* the standby branch: recovery flag, then the lag row if there is one
StandbyScore(in_recovery, result) ==
    Clamp(100 - RecoveryPenalty(in_recovery)
              - (IF result # NoRow
                 THEN StandbyLagPenalty(result[1]) + SecondsPenalty(result[2])
                 ELSE 0))

(***************************************************************************)
(* Positions of the main thread.                                           *)
(***************************************************************************)
PrimaryPcs ==
    {"lag_primary", "connections_primary", "wal_primary", "slots_primary",
     "slots_set_total", "slots_set_active", "slots_set_inactive",
     "health_primary", "close_primary"}

StandbyPcs == {"lag_standby", "wal_standby", "health_standby", "close_standby"}

\* inside collect_metrics(), that is inside main's try block
CollectPcs ==
    {"connect_primary", "connect_standby", "consistency", "done"}
    \cup PrimaryPcs \cup StandbyPcs

\* the process has ended
EndPcs == {"stopped", "crashed", "killed"}

NoRead == [done |-> FALSE, count |-> 0, in_recovery |-> FALSE, row |-> NoRow, score |-> Absent]

NoDc == [called |-> FALSE, acquired |-> {}, counts |-> NoRow]

Init ==
    /\ pc = "loop"
    /\ cycle = 0
    /\ faults = 0
    /\ scen \in Scenarios
    /\ db = Streaming(1)
    /\ conn = [e \in Endpoints |-> "none"]
    /\ reg = [s \in Series |-> Absent]
    /\ regAtStart = [s \in Series |-> Absent]
    /\ written = {}
    /\ invoked = <<>>
    /\ failed = {}
    /\ acquired = {}
    /\ reach = [e \in Endpoints |-> "untried"]
    /\ hsRead = [e \in Endpoints |-> NoRead]
    /\ dc = NoDc
    /\ dcOpen = {}
    /\ slotRes = NoRow
    /\ exc = "none"

\* The process ends: its memory (the registry included) and its sockets go.
Halt(how) ==
    /\ pc' = how
    /\ cycle' = 0
    /\ faults' = 0
    /\ conn' = [e \in Endpoints |-> "none"]
    /\ reg' = [s \in Series |-> Absent]
    /\ regAtStart' = [s \in Series |-> Absent]
    /\ written' = {}
    /\ invoked' = <<>>
    /\ failed' = {}
    /\ acquired' = {}
    /\ reach' = [e \in Endpoints |-> "untried"]
    /\ hsRead' = [e \in Endpoints |-> NoRead]
    /\ dc' = NoDc
    /\ dcOpen' = {}
    /\ slotRes' = NoRow
    /\ exc' = "none"
    /\ db' = Streaming(1)
    /\ UNCHANGED scen

(***************************************************************************)
(* main: while True / try: collect_metrics() ...                           *)
(***************************************************************************)
\* a new iteration calls collect_metrics(), which logs and goes to line 344
BeginCycle ==
    /\ pc = "loop"
    /\ cycle < scen.cycles
    /\ pc' = "connect_primary"
    /\ cycle' = cycle + 1
    /\ regAtStart' = reg
    /\ written' = {}
    /\ invoked' = <<>>
    /\ failed' = {}
    /\ acquired' = {}
    /\ reach' = [e \in Endpoints |-> "untried"]
    /\ hsRead' = [e \in Endpoints |-> NoRead]
    /\ dc' = NoDc
    /\ slotRes' = NoRow
    /\ db' \in NextDbStates
    /\ UNCHANGED <<faults, scen, conn, reg, dcOpen, exc>>

(***************************************************************************)
(* get_db_connection(instance) as collect_metrics calls it.                *)
(***************************************************************************)
Attempt(r, e, ok) ==
    [r EXCEPT ![e] = IF ok \/ r[e] = "up" THEN "up" ELSE "down"]

get_db_connection(e, here, pcOk, pcNone) ==
    /\ pc = here
    /\ \/ /\ conn' = [conn EXCEPT ![e] = "ready"]
          /\ acquired' = acquired \cup {e}
          /\ reach' = Attempt(reach, e, TRUE)
          /\ pc' = pcOk
          /\ UNCHANGED faults
       \/ /\ faults < scen.faults
          /\ faults' = faults + 1
          /\ conn' = [conn EXCEPT ![e] = "none"]
          /\ acquired' = acquired
          /\ reach' = Attempt(reach, e, FALSE)
          /\ pc' = pcNone
    /\ UNCHANGED <<cycle, scen, db, reg, regAtStart, written, invoked, failed,
                   hsRead, dc, dcOpen, slotRes, exc>>

\* bug: close() is skipped when a query has failed on the connection
close_unless_failed(e, here, next) ==
    /\ pc = here
    /\ conn' = [conn EXCEPT ![e] = IF conn[e] = "failed" THEN "failed" ELSE "none"]
    /\ pc' = next
    /\ UNCHANGED <<cycle, faults, scen, db, reg, regAtStart, written, invoked,
                   failed, acquired, reach, hsRead, dc, dcOpen, slotRes, exc>>

\* primary_conn.close() / standby_conn.close()
close(e, here, next) ==
    /\ pc = here
    /\ conn' = [conn EXCEPT ![e] = "none"]
    /\ pc' = next
    /\ UNCHANGED <<cycle, faults, scen, db, reg, regAtStart, written, invoked,
                   failed, acquired, reach, hsRead, dc, dcOpen, slotRes, exc>>

(***************************************************************************)
(* Query failures.  cursor.execute raises psycopg2.Error: either the       *)
(* environment makes this statement fail (the connection was usable until  *)
(* now), or an earlier statement already failed on this connection, which  *)
(* nobody rolled back, and this one is refused.                            *)
(***************************************************************************)
InjectedError(e) ==
    /\ conn[e] = "ready"
    /\ faults < scen.faults
    /\ faults' = faults + 1
    /\ conn' = [conn EXCEPT ![e] = "failed"]

QueryError(e) ==
    \/ InjectedError(e)
    \/ /\ conn[e] = "failed"
       /\ UNCHANGED <<faults, conn>>

\* bug: the collector has no except clause, the error reaches main
ExceptNothing(collector, next) ==
    /\ failed' = failed \cup {collector}
    /\ pc' = "handler"
    /\ exc' = "psycopg2"

\* except psycopg2.Error as e: logger.error(...), and the collector returns
ExceptPsycopg2Error(collector, next) ==
    /\ failed' = failed \cup {collector}
    /\ pc' = next
    /\ exc' = exc

\* the collector ran to its end without raising
Returns(next) ==
    /\ pc' = next
    /\ UNCHANGED <<faults, conn, failed, exc>>

(***************************************************************************)
(* The collectors collect_metrics calls with a connection.                 *)
(***************************************************************************)
LagUpdate(e, row) ==
    (Ser("pg_replication_lag_bytes", e) :> row[1])
    @@ (Ser("pg_replication_lag_seconds", e) :> row[2])
    @@ (Ser("pg_replication_lag_mb", e) :> row[1])

get_replication_lag_metrics(e, here, next) ==
    /\ pc = here
    /\ invoked' = Append(invoked, <<"lag", e>>)
    /\ \/ /\ conn[e] = "ready"
          /\ \E result \in LagRows(e) :
                \* if result: ... the three set() calls
                /\ reg' = IF result # NoRow THEN SetAll(reg, LagUpdate(e, result)) ELSE reg
                /\ written' = IF result # NoRow THEN written \cup LagSeries(e) ELSE written
          /\ Returns(next)
       \/ /\ QueryError(e)
          /\ ExceptPsycopg2Error(<<"lag", e>>, next)
          /\ UNCHANGED <<reg, written>>
    /\ UNCHANGED <<cycle, scen, db, regAtStart, acquired, reach, hsRead, dc, dcOpen, slotRes>>

\* COUNT(*), COUNT(*) FILTER (WHERE sync_state = 'sync') FROM pg_stat_replication
ConnCounts == {ConnCountQuery(db)}

\* client_addr, CASE WHEN sync_state = 'sync' ... FROM pg_stat_replication
ConnRows == {ConnRowsQuery(db)}

\* bug: the aggregate flag needs more than one synchronous connection
CountUpdateSeveral(counts) ==
    (Ser("pg_replication_connections", "primary") :> counts[1])
    @@ (SyncSer("all") :> (IF counts[2] > 1 THEN 1 ELSE 0))

CountUpdate(counts) ==
    (Ser("pg_replication_connections", "primary") :> counts[1])
    @@ (SyncSer("all") :> (IF counts[2] > 0 THEN 1 ELSE 0))

ClientUpdate(rows) ==
    [s \in {SyncSer(r[1]) : r \in rows} |->
        (CHOOSE r \in rows : SyncSer(r[1]) = s)[2]]

\* only ever called with instance = 'primary'
get_replication_connection_metrics(here, next) ==
    /\ pc = here
    /\ invoked' = Append(invoked, <<"connections", "primary">>)
    /\ \/ /\ conn["primary"] = "ready"
          /\ \E counts \in ConnCounts, rows \in ConnRows :
                LET upd == ClientUpdate(rows) @@ CountUpdate(counts)
                IN  /\ reg' = SetAll(reg, upd)
                    /\ written' = written \cup DOMAIN upd
          /\ Returns(next)
       \/ \* the first query fails
          /\ QueryError("primary")
          /\ ExceptPsycopg2Error(<<"connections", "primary">>, next)
          /\ UNCHANGED <<reg, written>>
       \/ \* the second query fails, after the counts were set
          /\ InjectedError("primary")
          /\ \E counts \in ConnCounts :
                /\ reg' = SetAll(reg, CountUpdate(counts))
                /\ written' = written \cup DOMAIN CountUpdate(counts)
          /\ ExceptPsycopg2Error(<<"connections", "primary">>, next)
    /\ UNCHANGED <<cycle, scen, db, regAtStart, acquired, reach, hsRead, dc, dcOpen, slotRes>>

\* SELECT COUNT(*) FROM pg_stat_replication
WalSenders == {Cardinality(db.replicas)}

\* pg_wal_lsn_diff(pg_current_wal_lsn(), '0/0')
WalBytes == {50331648}

\* SELECT COUNT(*) FROM pg_stat_wal_receiver
WalReceivers == {IF db.receiver THEN 1 ELSE 0}

get_wal_metrics(e, here, next) ==
    /\ pc = here
    /\ invoked' = Append(invoked, <<"wal", e>>)
    /\ \/ /\ conn[e] = "ready"
          /\ IF e = "primary"
             THEN \E n \in WalSenders, b \in WalBytes :
                    LET upd == (Ser("pg_wal_senders", e) :> n)
                               @@ (Ser("pg_wal_generation_rate", e) :> b)
                    IN  /\ reg' = SetAll(reg, upd)
                        /\ written' = written \cup DOMAIN upd
             ELSE \E n \in WalReceivers :
                    /\ reg' = SetAll(reg, Ser("pg_wal_receivers", e) :> n)
                    /\ written' = written \cup {Ser("pg_wal_receivers", e)}
          /\ Returns(next)
       \/ \* the first query fails
          /\ QueryError(e)
          /\ ExceptPsycopg2Error(<<"wal", e>>, next)
          /\ UNCHANGED <<reg, written>>
       \/ \* primary: the second query fails, after pg_wal_senders was set
          /\ e = "primary"
          /\ InjectedError(e)
          /\ \E n \in WalSenders :
                /\ reg' = SetAll(reg, Ser("pg_wal_senders", e) :> n)
                /\ written' = written \cup {Ser("pg_wal_senders", e)}
          /\ ExceptPsycopg2Error(<<"wal", e>>, next)
    /\ UNCHANGED <<cycle, scen, db, regAtStart, acquired, reach, hsRead, dc, dcOpen, slotRes>>

\* total, active, inactive FROM pg_replication_slots
SlotRows ==
    IF scen.vary = "slots" THEN {<<1, 1, 0>>, <<2, 1, 1>>} ELSE {<<1, 1, 0>>}

\* cursor.execute(...); result = cursor.fetchone()
get_replication_slot_metrics(e, here, pcSet, next) ==
    /\ pc = here
    /\ invoked' = Append(invoked, <<"slots", e>>)
    /\ \/ /\ conn[e] = "ready"
          /\ slotRes' \in SlotRows
          /\ Returns(pcSet)
       \/ /\ QueryError(e)
          /\ ExceptPsycopg2Error(<<"slots", e>>, next)
          /\ UNCHANGED slotRes
    /\ UNCHANGED <<cycle, scen, db, reg, regAtStart, written, acquired, reach, hsRead, dc, dcOpen>>

\* one of the three .set() calls of get_replication_slot_metrics
slot_set(e, here, name, i, next) ==
    /\ pc = here
    /\ reg' = SetAll(reg, Ser(name, e) :> slotRes[i])
    /\ written' = written \cup {Ser(name, e)}
    /\ slotRes' = IF i = 3 THEN NoRow ELSE slotRes
    /\ pc' = next
    /\ UNCHANGED <<cycle, faults, scen, db, conn, regAtStart, invoked, failed, acquired, reach,
                   hsRead, dc, dcOpen, exc>>

\* bug: the score is set after the first penalty, before the lag query
calculate_health_score_partial(e, here, next) ==
    /\ pc = here
    /\ invoked' = Append(invoked, <<"health", e>>)
    /\ InjectedError(e)
    /\ IF e = "primary"
       THEN \E n \in HsCounts :
              reg' = SetAll(reg, Ser("pg_replication_health_score", e) :>
                                   100 - ConnectionPenalty(n))
       ELSE \E r \in HsRecovery :
              reg' = SetAll(reg, Ser("pg_replication_health_score", e) :>
                                   100 - RecoveryPenalty(r))
    /\ written' = written \cup {Ser("pg_replication_health_score", e)}
    /\ ExceptPsycopg2Error(<<"health", e>>, next)
    /\ UNCHANGED <<cycle, scen, db, regAtStart, acquired, reach, hsRead, dc, dcOpen, slotRes>>

calculate_health_score(e, here, next) ==
    /\ pc = here
    /\ invoked' = Append(invoked, <<"health", e>>)
    /\ \/ /\ conn[e] = "ready"
          /\ IF e = "primary"
             THEN \E n \in HsCounts, result \in HsPrimaryRows :
                    LET health_score == PrimaryScore(n, result)
                    IN  /\ reg' = SetAll(reg, Ser("pg_replication_health_score", e) :> health_score)
                        /\ hsRead' = [hsRead EXCEPT ![e] =
                               [done |-> TRUE, count |-> n, in_recovery |-> FALSE,
                                row |-> result, score |-> health_score]]
             ELSE \E r \in HsRecovery, result \in HsStandbyRows :
                    LET health_score == StandbyScore(r, result)
                    IN  /\ reg' = SetAll(reg, Ser("pg_replication_health_score", e) :> health_score)
                        /\ hsRead' = [hsRead EXCEPT ![e] =
                               [done |-> TRUE, count |-> 0, in_recovery |-> r,
                                row |-> result, score |-> health_score]]
          /\ written' = written \cup {Ser("pg_replication_health_score", e)}
          /\ Returns(next)
       \/ \* either query fails: nothing is set
          /\ QueryError(e)
          /\ ExceptPsycopg2Error(<<"health", e>>, next)
          /\ UNCHANGED <<reg, written, hsRead>>
    /\ UNCHANGED <<cycle, scen, db, regAtStart, acquired, reach, dc, dcOpen, slotRes>>

(***************************************************************************)
(* get_data_consistency_metrics: opens its own two connections.            *)
(***************************************************************************)
\* bug: >= instead of ==
ConsistencyAtLeast(primary_count, standby_count) ==
    IF primary_count >= standby_count THEN 1 ELSE 0

Consistency(primary_count, standby_count) ==
    IF primary_count = standby_count THEN 1 ELSE 0

\* bug: an unreachable side is published as an inconsistency
return_zero(next) ==
    /\ pc' = next
    /\ reg' = SetAll(reg, ConsistencySer :> 0)
    /\ written' = written \cup {ConsistencySer}
    /\ UNCHANGED <<failed, exc>>

\* if not primary_conn or not standby_conn: return
return_without_check(next) ==
    /\ pc' = next
    /\ UNCHANGED <<reg, written, failed, exc>>

get_data_consistency_metrics(here, next) ==
    /\ pc = here
    /\ invoked' = Append(invoked, <<"consistency", "cluster">>)
    /\ \E okP \in BOOLEAN, okS \in BOOLEAN :
          LET cost == (IF okP THEN 0 ELSE 1) + (IF okS THEN 0 ELSE 1)
              got  == {e \in Endpoints : IF e = "primary" THEN okP ELSE okS}
          IN  /\ faults + cost <= scen.faults
              /\ reach' = Attempt(Attempt(reach, "primary", okP), "standby", okS)
              /\ \/ \* if not primary_conn or not standby_conn: return
                    /\ got # Endpoints
                    /\ faults' = faults + cost
                    /\ dc' = [called |-> TRUE, acquired |-> got, counts |-> NoRow]
                    /\ dcOpen' = dcOpen \cup got
                    /\ return_without_check(next)
                 \/ \* both counts are read, the gauge is set, all is closed
                    /\ got = Endpoints
                    /\ \E primary_count \in RowCounts, standby_count \in RowCounts :
                          /\ reg' = SetAll(reg, ConsistencySer :>
                                        Consistency(primary_count, standby_count))
                          /\ dc' = [called |-> TRUE, acquired |-> got,
                                    counts |-> <<primary_count, standby_count>>]
                    /\ written' = written \cup {ConsistencySer}
                    /\ pc' = next
                    /\ UNCHANGED <<faults, dcOpen, failed, exc>>
                 \/ \* a count query raises: the except clause logs and returns
                    /\ got = Endpoints
                    /\ faults < scen.faults
                    /\ faults' = faults + 1
                    /\ dc' = [called |-> TRUE, acquired |-> got, counts |-> NoRow]
                    /\ dcOpen' = dcOpen \cup got
                    /\ ExceptPsycopg2Error(<<"consistency", "cluster">>, next)
                    /\ UNCHANGED <<reg, written>>
    /\ UNCHANGED <<cycle, scen, db, conn, regAtStart, acquired, hsRead, slotRes>>

(***************************************************************************)
(* collect_metrics: the order of the calls.                                *)
(***************************************************************************)
\* bug: the WAL collector is called before the connection collector
collect_metrics_wal_first ==
    \/ get_db_connection("primary", "connect_primary", "lag_primary", "connect_standby")
    \/ get_replication_lag_metrics("primary", "lag_primary", "wal_primary")
    \/ get_wal_metrics("primary", "wal_primary", "connections_primary")
    \/ get_replication_connection_metrics("connections_primary", "slots_primary")
    \/ get_replication_slot_metrics("primary", "slots_primary", "slots_set_total",
                                    "health_primary")
    \/ slot_set("primary", "slots_set_total", "pg_replication_slots_total", 1,
                "slots_set_active")
    \/ slot_set("primary", "slots_set_active", "pg_replication_slots_active", 2,
                "slots_set_inactive")
    \/ slot_set("primary", "slots_set_inactive", "pg_replication_slots_inactive", 3,
                "health_primary")
    \/ calculate_health_score("primary", "health_primary", "close_primary")
    \/ close("primary", "close_primary", "connect_standby")
    \/ get_db_connection("standby", "connect_standby", "lag_standby", "consistency")
    \/ get_replication_lag_metrics("standby", "lag_standby", "wal_standby")
    \/ get_wal_metrics("standby", "wal_standby", "health_standby")
    \/ calculate_health_score("standby", "health_standby", "close_standby")
    \/ close("standby", "close_standby", "consistency")
    \/ get_data_consistency_metrics("consistency", "done")

collect_metrics ==
    \/ get_db_connection("primary", "connect_primary", "lag_primary", "connect_standby")
    \/ get_replication_lag_metrics("primary", "lag_primary", "connections_primary")
    \/ get_replication_connection_metrics("connections_primary", "wal_primary")
    \/ get_wal_metrics("primary", "wal_primary", "slots_primary")
    \/ get_replication_slot_metrics("primary", "slots_primary", "slots_set_total",
                                    "health_primary")
    \/ slot_set("primary", "slots_set_total", "pg_replication_slots_total", 1,
                "slots_set_active")
    \/ slot_set("primary", "slots_set_active", "pg_replication_slots_active", 2,
                "slots_set_inactive")
    \/ slot_set("primary", "slots_set_inactive", "pg_replication_slots_inactive", 3,
                "health_primary")
    \/ calculate_health_score("primary", "health_primary", "close_primary")
    \/ close("primary", "close_primary", "connect_standby")
    \/ get_db_connection("standby", "connect_standby", "lag_standby", "consistency")
    \/ get_replication_lag_metrics("standby", "lag_standby", "wal_standby")
    \/ get_wal_metrics("standby", "wal_standby", "health_standby")
    \/ calculate_health_score("standby", "health_standby", "close_standby")
    \/ close("standby", "close_standby", "consistency")
    \/ get_data_consistency_metrics("consistency", "done")

\* logger.info("Metrics collection completed"); collect_metrics returns
collect_metrics_returns ==
    /\ pc = "done"
    /\ pc' = "sleep"
    /\ UNCHANGED <<cycle, faults, scen, db, conn, reg, regAtStart, written, invoked,
                   failed, acquired, reach, hsRead, dc, dcOpen, slotRes, exc>>

\* a statement of collect_metrics raises an exception that is not a
\* psycopg2.Error: no collector catches it, it reaches main
UnexpectedError ==
    /\ pc \in CollectPcs
    /\ faults < scen.faults
    /\ faults' = faults + 1
    /\ pc' = "handler"
    /\ exc' = "other"
    /\ slotRes' = NoRow
    /\ UNCHANGED <<cycle, scen, db, conn, reg, regAtStart, written, invoked, failed,
                   acquired, reach, hsRead, dc, dcOpen>>

(***************************************************************************)
(* main: the rest of the loop body.                                        *)
(***************************************************************************)
\* time.sleep(15) inside the try block
sleep_after_collect ==
    /\ pc = "sleep"
    /\ pc' = "loop"
    /\ UNCHANGED <<cycle, faults, scen, db, conn, reg, regAtStart, written, invoked,
                   failed, acquired, reach, hsRead, dc, dcOpen, slotRes, exc>>

\* bug: the except Exception clause leaves the loop
except_Exception_breaks ==
    /\ pc = "handler"
    /\ pc' = "exited"
    /\ UNCHANGED <<cycle, faults, scen, db, conn, reg, regAtStart, written, invoked,
                   failed, acquired, reach, hsRead, dc, dcOpen, slotRes, exc>>

\* except Exception as e: logger.error(...)
except_Exception ==
    /\ pc = "handler"
    /\ pc' = "error_sleep"
    /\ UNCHANGED <<cycle, faults, scen, db, conn, reg, regAtStart, written, invoked,
                   failed, acquired, reach, hsRead, dc, dcOpen, slotRes, exc>>

\* time.sleep(15) inside the except Exception clause
sleep_after_error ==
    /\ pc = "error_sleep"
    /\ pc' = "loop"
    /\ UNCHANGED <<cycle, faults, scen, db, conn, reg, regAtStart, written, invoked,
                   failed, acquired, reach, hsRead, dc, dcOpen, slotRes, exc>>

\* SIGINT: Python raises KeyboardInterrupt in the main thread.  Inside the try
\* block the except KeyboardInterrupt clause logs and breaks; anywhere else
\* nothing catches it.
Sigint ==
    \/ /\ pc \in CollectPcs \cup {"sleep"}
       /\ Halt("stopped")
    \/ /\ pc \in {"loop", "handler", "error_sleep"}
       /\ Halt("crashed")

\* SIGTERM: no handler is installed, the process is killed where it stands
Sigterm ==
    /\ pc \notin EndPcs
    /\ Halt("killed")

Step ==
    \/ BeginCycle
    \/ collect_metrics
    \/ collect_metrics_returns
    \/ sleep_after_collect
    \/ except_Exception
    \/ sleep_after_error

Next ==
    \/ Step
    \/ UnexpectedError
    \/ Sigint
    \/ Sigterm

Spec == Init /\ [][Next]_vars

\* The loop under fairness: the interpreter runs the main thread and every
\* query returns or raises.  The control flow does not depend on the values
\* the queries return, so the steady environment is explored.
InitSteady == Init /\ scen.vary = "steady"

FairSpec == InitSteady /\ [][Next]_vars /\ WF_vars(Step)

(***************************************************************************)
(* Properties.                                                             *)
(***************************************************************************)
Range(seq) == {seq[i] : i \in DOMAIN seq}

\* the calls of one cycle, in the order collect_metrics makes them
PrimaryCalls ==
    << <<"lag", "primary">>, <<"connections", "primary">>, <<"wal", "primary">>,
       <<"slots", "primary">>, <<"health", "primary">> >>

StandbyCalls ==
    << <<"lag", "standby">>, <<"wal", "standby">>, <<"health", "standby">> >>

ExpectedCalls ==
    (IF "primary" \in acquired THEN PrimaryCalls ELSE <<>>)
    \o (IF "standby" \in acquired THEN StandbyCalls ELSE <<>>)
    \o << <<"consistency", "cluster">> >>

HealthSer(e) == Ser("pg_replication_health_score", e)

\* C1: a query failure inside a collector never leaves collect_metrics: no
\* psycopg2.Error reaches main, and when the cycle has run to its end every
\* collector of every acquired endpoint and the consistency collector were
\* called, whichever collectors failed.
C1_FailureIsolated ==
    /\ exc # "psycopg2"
    /\ pc \in {"handler", "error_sleep"} => exc = "other"
    /\ pc = "done" => invoked = ExpectedCalls

C1_Witness ==
    /\ pc = "done"
    /\ <<"lag", "primary">> \in failed
    /\ acquired = Endpoints
    /\ <<"health", "standby">> \in Range(invoked)
    /\ <<"consistency", "cluster">> \in Range(invoked)

\* C2: as long as no signal ends the process, every cycle is followed by
\* another one, whether it returned or raised (up to the number of cycles
\* the run explores).
C2_LoopGoesOn ==
    \A n \in 0..(MaxCycles - 1) :
        [](  (cycle = n /\ n < scen.cycles /\ pc \notin EndPcs)
             => <>(cycle = n + 1 \/ pc \in EndPcs))

C2_Witness ==
    /\ cycle = 2
    /\ pc = "connect_primary"
    /\ exc = "other"

\* C3: a connection collect_metrics acquired is closed when the pass over
\* its endpoint is over: the primary one before the standby connection is
\* asked for, both before the consistency collector and the end of the cycle.
C3_ConnectionsClosed ==
    /\ pc \in {"connect_standby", "consistency", "done", "sleep"} \cup StandbyPcs
          => conn["primary"] = "none"
    /\ pc \in {"consistency", "done", "sleep"} => conn["standby"] = "none"

C3_Witness ==
    /\ pc = "connect_standby"
    /\ "primary" \in acquired
    /\ <<"wal", "primary">> \in failed
    /\ conn["primary"] = "none"

\* C4: no connection opened by the consistency collector stays open after it
\* has returned.
C4_ConsistencyConnectionsClosed == dcOpen = {}

\* C5: after the consistency collector ran, the gauge is 1 for equal counts
\* and 0 for different counts when both connections were there and both
\* counts were read; when a connection was missing nothing was set and the
\* gauge has the value it had before the cycle.
C5_ConsistencyValue ==
    dc.called =>
        /\ dc.counts # NoRow =>
              /\ dc.counts[1] = dc.counts[2] => reg[ConsistencySer] = 1
              /\ dc.counts[1] # dc.counts[2] => reg[ConsistencySer] = 0
        /\ dc.acquired # Endpoints =>
              /\ ConsistencySer \notin written
              /\ reg[ConsistencySer] = regAtStart[ConsistencySer]

C5_Witness ==
    /\ dc.called
    /\ dc.acquired # Endpoints
    /\ regAtStart[ConsistencySer] = 0
    /\ reg[ConsistencySer] = 0

\* the series a collector sets when all its queries succeed
SeriesSetBy(c) ==
    CASE c[1] = "lag" -> LagSeries(c[2])
      [] c[1] = "connections" ->
            {Ser("pg_replication_connections", "primary"), SyncSer("all")}
      [] c[1] = "wal" ->
            IF c[2] = "primary"
            THEN {Ser("pg_wal_senders", "primary"),
                  Ser("pg_wal_generation_rate", "primary")}
            ELSE {Ser("pg_wal_receivers", "standby")}
      [] c[1] = "slots" ->
            {Ser("pg_replication_slots_total", c[2]),
             Ser("pg_replication_slots_active", c[2]),
             Ser("pg_replication_slots_inactive", c[2])}
      [] c[1] = "health" -> {HealthSer(c[2])}
      [] OTHER -> {ConsistencySer}

CallsOf(e) == IF e = "primary" THEN PrimaryCalls ELSE StandbyCalls

Other(e) == IF e = "primary" THEN "standby" ELSE "primary"

\* C6: at the end of a cycle in which every connection attempt to an endpoint
\* failed, each series of that instance has the value it had before the
\* cycle, the consistency gauge was not set, and the collectors of the other
\* endpoint, if it was reached, were all called and set their series unless
\* their own query failed.
C6_UnreachableEndpoint ==
    \A e \in Endpoints :
        (pc = "done" /\ reach[e] = "down") =>
            /\ \A s \in SeriesOf(e) : s \notin written /\ reg[s] = regAtStart[s]
            /\ ConsistencySer \notin written
            /\ reg[ConsistencySer] = regAtStart[ConsistencySer]
            /\ Other(e) \in acquired =>
                  \A c \in Range(CallsOf(Other(e))) :
                      /\ c \in Range(invoked)
                      /\ c \notin failed => SeriesSetBy(c) \subseteq written

C6_Witness ==
    /\ pc = "done"
    /\ cycle = 2
    /\ reach["standby"] = "down"
    /\ regAtStart[HealthSer("standby")] = 100
    /\ regAtStart[ConsistencySer] = 1
    /\ acquired = {"primary"}
    /\ failed = {}

\* C7: a health score in the registry is an integer from 0 to 100.
C7_ScoreInRange ==
    \A e \in Endpoints :
        reg[HealthSer(e)] # Absent => reg[HealthSer(e)] \in 0..100

C7_Witness ==
    /\ hsRead["primary"].done
    /\ hsRead["primary"].count = 0
    /\ hsRead["primary"].row = <<10485761>>
    /\ reg[HealthSer("primary")] = 20

\* C8: when the primary scorer read zero replication connections, the score
\* it published is at most 50, whatever lag it read.
C8_ZeroConnections ==
    (hsRead["primary"].done /\ hsRead["primary"].count = 0)
        => /\ reg[HealthSer("primary")] # Absent
           /\ reg[HealthSer("primary")] <= 50

C8_Witness ==
    /\ hsRead["primary"].done
    /\ hsRead["primary"].count = 0
    /\ hsRead["primary"].row = <<0>>
    /\ reg[HealthSer("primary")] = 50

LagBytesTaken(e) ==
    LET r == hsRead[e]
    IN  IF e = "primary"
        THEN 100 - (IF r.count = 0 THEN 50 ELSE 0) - reg[HealthSer(e)]
        ELSE 100 - (IF r.in_recovery THEN 0 ELSE 30)
                 - (IF r.row[2] > 30 THEN 20 ELSE IF r.row[2] > 5 THEN 5 ELSE 0)
                 - reg[HealthSer(e)]

\* C10: for either instance and every lag row the scorer read, the lag-bytes
\* penalty is 30 above 10485760 bytes, 10 above 1048576 and up to 10485760,
\* and 0 up to 1048576: never 10 and 30 together.
C10_LagBytesPenalty ==
    \A e \in Endpoints :
        (hsRead[e].done /\ hsRead[e].row # NoRow) =>
            LET b == hsRead[e].row[1]
                p == LagBytesTaken(e)
            IN  /\ p \in {0, 10, 30}
                /\ p = 30 <=> b > 10485760
                /\ p = 10 <=> (b > 1048576 /\ b <= 10485760)
                /\ p = 0 <=> b <= 1048576

C10_Witness ==
    /\ hsRead["standby"].done
    /\ hsRead["standby"].row = <<10485760, 31>>
    /\ reg[HealthSer("standby")] = 70

IsPrefix(a, b) ==
    /\ Len(a) <= Len(b)
    /\ \A i \in 1..Len(a) : a[i] = b[i]

\* C11: at every moment of a cycle the collectors called so far are the
\* first ones of the sequence primary lag, connections, WAL, slots, health,
\* standby lag, WAL, health, consistency (without the collectors of an
\* endpoint that gave no connection); while the slot collector is between
\* two of its writes no other collector has been called; the connection and
\* slot collectors are never called for the standby.
C11_CollectorOrder ==
    /\ IsPrefix(invoked, ExpectedCalls)
    /\ pc \in {"slots_set_total", "slots_set_active", "slots_set_inactive"}
          => invoked[Len(invoked)] = <<"slots", "primary">>
    /\ <<"connections", "standby">> \notin Range(invoked)
    /\ <<"slots", "standby">> \notin Range(invoked)

C11_Witness ==
    /\ pc = "done"
    /\ invoked = PrimaryCalls \o StandbyCalls \o << <<"consistency", "cluster">> >>

\* C12: when a query of the health scorer failed for an endpoint, the score
\* of that endpoint was not set and has the value it had before (nothing but
\* the scorer sets it), no input of the scorer was turned into a score, and
\* at the end of the cycle the collectors of the endpoints that follow and
\* the consistency collector have all been called.
C12_ScoreKeptOnFailure ==
    \A e \in Endpoints :
        <<"health", e>> \in failed =>
            /\ HealthSer(e) \notin written
            /\ reg[HealthSer(e)] = regAtStart[HealthSer(e)]
            /\ ~hsRead[e].done
            /\ pc = "done" =>
                  /\ <<"consistency", "cluster">> \in Range(invoked)
                  /\ (e = "primary" /\ "standby" \in acquired)
                        => Range(StandbyCalls) \subseteq Range(invoked)

C12_Witness ==
    /\ pc = "done"
    /\ <<"health", "primary">> \in failed
    /\ regAtStart[HealthSer("primary")] = 50
    /\ reg[HealthSer("primary")] = 50
    /\ HealthSer("standby") \in written
    /\ ConsistencySer \in written

\* C13: an interrupt that arrives during a collection pass, during the sleep
\* after a cycle or during the sleep after a logged cycle error is never an
\* uncaught KeyboardInterrupt: the process does not end outside the except
\* KeyboardInterrupt clause ("Exporter stopped by user").  SIGTERM, which
\* ends the process without running any clause, is left aside here.
C13_CleanStop ==
    [][(pc \in CollectPcs \cup {"sleep", "error_sleep"} /\ pc' \in EndPcs)
          => pc' \in {"stopped", "killed"}]_vars

\* the cluster has one standby, attached in synchronous mode, in recovery,
\* at most 1 MiB and 5 seconds behind, and this is also what the scorers read
OneHealthySyncStandby ==
    /\ Cardinality(db.replicas) = 1
    /\ \A r \in db.replicas : r[2] = 1 /\ r[3] <= 1048576
    /\ db.receiver
    /\ db.replay # NoRow
    /\ db.replay[1] <= 1048576
    /\ db.replay[2] <= 5
    /\ hsRead["primary"].done
    /\ hsRead["primary"].count = 1
    /\ hsRead["primary"].row[1] <= 1048576
    /\ hsRead["standby"].done
    /\ hsRead["standby"].in_recovery
    /\ hsRead["standby"].row # NoRow
    /\ hsRead["standby"].row[1] <= 1048576
    /\ hsRead["standby"].row[2] <= 5

\* C14: at the end of a cycle in which both endpoints gave a connection, no
\* query failed and the cluster had one healthy synchronous standby, both
\* health scores are 100, pg_replication_connections of the primary is 1,
\* and pg_replication_sync_state is 1 for the standby's address and for "all".
C14_HealthyCluster ==
    (pc = "done" /\ acquired = Endpoints /\ failed = {} /\ OneHealthySyncStandby)
        => /\ reg[HealthSer("primary")] = 100
           /\ reg[HealthSer("standby")] = 100
           /\ reg[Ser("pg_replication_connections", "primary")] = 1
           /\ \A r \in db.replicas : reg[SyncSer(r[1])] = 1
           /\ reg[SyncSer("all")] = 1

C14_Witness ==
    /\ pc = "done"
    /\ acquired = Endpoints
    /\ failed = {}
    /\ OneHealthySyncStandby
    /\ hsRead["primary"].row = <<1048576>>
    /\ reg[HealthSer("primary")] = 100
    /\ reg[SyncSer("10.0.0.2")] = 1

\* C15: a collector fails only when the environment made one of its own
\* queries fail: the collectors that failed in a cycle are never more than
\* the failures injected so far (a failure of an earlier collector does not
\* make a later collector on the same connection fail).
C15_FailureContained == Cardinality(failed) <= faults

\* the lag collector of e sees no replication partner
NoPartner(e) ==
    IF e = "primary" THEN db.replicas = {} ELSE db.replay = NoRow

\* C16: when the lag collector ran without failing on an endpoint that sees
\* no replication partner (a primary with no row in pg_stat_replication, a
\* standby without receive and replay positions), it set the three lag
\* gauges of that instance in this cycle, and all three are 0.
C16_NoPartnerLagZero ==
    \A e \in Endpoints :
        (/\ <<"lag", e>> \in Range(invoked)
         /\ <<"lag", e>> \notin failed
         /\ NoPartner(e))
            => \A s \in LagSeries(e) : s \in written /\ reg[s] = 0

C16_Witness ==
    /\ cycle = 2
    /\ pc = "done"
    /\ failed = {}
    /\ NoPartner("primary")
    /\ NoPartner("standby")
    /\ regAtStart[Ser("pg_replication_lag_bytes", "primary")] = 512000
    /\ regAtStart[Ser("pg_replication_lag_seconds", "standby")] = 2
    /\ reg[Ser("pg_replication_lag_bytes", "primary")] = 0
    /\ reg[Ser("pg_replication_lag_seconds", "standby")] = 0

\* C17: once the connection collector has run without failing in a cycle,
\* pg_replication_sync_state{client_addr="all"} is 1 exactly when some
\* per-client pg_replication_sync_state series in the registry is 1.
C17_AggregateMatchesClients ==
    (/\ <<"connections", "primary">> \in Range(invoked)
     /\ <<"connections", "primary">> \notin failed)
        => (reg[SyncSer("all")] = 1 <=> \E a \in ClientAddrs : reg[SyncSer(a)] = 1)

SlotSer(name) == Ser(name, "primary")

\* C18: in every state (the HTTP server thread can serve a scrape between any
\* two steps of the main thread), once the three slot gauges have been set
\* pg_replication_slots_total is the sum of pg_replication_slots_active and
\* pg_replication_slots_inactive.
C18_SlotGaugesAgree ==
    (\A n \in {"pg_replication_slots_total", "pg_replication_slots_active",
                "pg_replication_slots_inactive"} : reg[SlotSer(n)] # Absent)
        => reg[SlotSer("pg_replication_slots_total")]
              = reg[SlotSer("pg_replication_slots_active")]
                + reg[SlotSer("pg_replication_slots_inactive")]

\* the score of section 4.6 for the values published for e
ScoreOfPublished(e) ==
    IF e = "primary"
    THEN PrimaryScore(reg[Ser("pg_replication_connections", e)],
                      <<reg[Ser("pg_replication_lag_bytes", e)]>>)
    ELSE StandbyScore(hsRead[e].in_recovery,
                      <<reg[Ser("pg_replication_lag_bytes", e)],
                        reg[Ser("pg_replication_lag_seconds", e)]>>)

\* C19: at the end of a cycle in which every collector of an endpoint was
\* called and none failed, the health score of that endpoint is the score of
\* the values published for it in that cycle.  Stated for the runs in which
\* the state of the cluster does not even change during a cycle.
C19_ScoreMatchesPublished ==
    \A e \in Endpoints :
        (/\ scen.vary = "replication"
         /\ pc = "done"
         /\ Range(CallsOf(e)) \subseteq Range(invoked)
         /\ Range(CallsOf(e)) \cap failed = {})
            => reg[HealthSer(e)] = ScoreOfPublished(e)

====
